---------------------------- MODULE Spec2Model ----------------------------
(***************************************************************************)
(* State-machine model of the Raydium AMM executor (src/src/amm/executor.rs)*)
(*                                                                         *)
(*   RaydiumAmm::quote             one async call, split at its awaits     *)
(*   RaydiumAmm::make_swap         via swap_instructions / swap_transaction*)
(*   RaydiumAmm::update_config                                             *)
(*                                                                         *)
(* Option<T> is a sequence of length at most one: None == <<>>,            *)
(* Some(x) == <<x>>.  A Pubkey is a pair <<name, kind>>.                    *)
(***************************************************************************)
EXTENDS Integers, Sequences, FiniteSets, Bags, TLC

VARIABLES
    config,            \* self.config : SwapConfig
    load_keys_by_api,  \* self.load_keys_by_api
    ledger,            \* the ledger: address -> Option<account>
    pc,                \* position of the quote call in flight
    swap_input,        \* the caller's SwapInput (mints and market; see QuoteSnapshot)
    pool_id,           \* local `pool_id` : Option<Pubkey>
    amm_keys,          \* local `amm_keys` : Option<AmmKeys>
    market_keys,       \* local `market_keys` : Option<MarketKeys>
    direction,         \* local `direction`
    apiCalls,          \* metadata-service requests issued by the call in flight
    rpcCalls,          \* ledger reads issued by the call in flight
    rsps,              \* local `rsps`: the account snapshot, <<>> before it is read
    res,               \* what the last quote call returned
    built,             \* what the last swap_instructions / swap_transaction returned
    in_flight          \* the bag of make_swap calls suspended at their await

vars == <<config, load_keys_by_api, ledger, pc, swap_input, pool_id, amm_keys,
          market_keys, direction, apiCalls, rpcCalls, rsps, res, built,
          in_flight>>

---------------------------------------------------------------------------
(* Bounds of the model.                                                    *)

MaxReserve == 2        \* small vault balances are 0..MaxReserve
MaxAmount == 2         \* small swap amounts are 0..MaxAmount
MaxPage == 2           \* candidates on one metadata-service page

---------------------------------------------------------------------------
(* Option and addresses.                                                   *)

None == <<>>
Some(x) == <<x>>
IsSome(o) == Len(o) = 1
Unwrap(o) == o[1]
\* Option::or
OrElse(a, b) == IF IsSome(a) THEN a ELSE b

RAYDIUM_LIQUIDITY_POOL_V4_PROGRAM_ID == <<"675kPX9MHTjS2zt1qfr1NYHuzeLXfQM9H24wFSUt1Mp8", "program">>
OTHER_PROGRAM_ID == <<"CPMM", "program">>

\* The mints of the modelled pool (coin, pc) and an unrelated mint.
CoinMint == <<"C", "mint">>
PcMint == <<"P", "mint">>
OtherMint == <<"X", "mint">>
Mints == {CoinMint, PcMint, OtherMint}

\* P1 is an AMM v4 pool; PW is the AMM v4 pool of the worked example;
\* P2 is a pool of another program and P3 an AMM v4 pool of another pair,
\* neither with accounts on the modelled ledger.
PoolIds == {<<"P1", "amm">>, <<"PW", "amm">>, <<"P2", "amm">>, <<"P3", "amm">>}
Addr(pool, kind) == <<pool[1], kind>>
AccountKinds == {"amm", "target", "pc_vault", "coin_vault", "open_orders", "market", "event_q"}
Addrs == {<<p[1], k>> : p \in PoolIds, k \in AccountKinds}


---------------------------------------------------------------------------
(* Unsigned integer arithmetic.  Every operand of the model is below 2^31, *)
(* so a u64 product never overflows; the product a*b is formed limb by     *)
(* limb (a few bits of b at a time) so that it is exact at any magnitude.  *)

\* (r + s) mod c for 0 <= r, s < c, and whether it wrapped
AddMod(r, s, c) == IF r >= c - s THEN <<r - (c - s), 1>> ELSE <<r + s, 0>>

\* one bit of b: <<q, r>> becomes the quotient and remainder of (2 * (q * c + r) + bit * a) by c
MulDivStep(h, bit, a, c) ==
    LET qr == h
        d == AddMod(qr[2], qr[2], c)
        q2 == 2 * qr[1] + d[2]
    IN  IF bit = 0 THEN <<q2, d[1]>>
        ELSE LET e == AddMod(d[1], a % c, c)
             IN  <<q2 + (a \div c) + e[2], e[1]>>

\* four bits of b, the highest first
MulDivStep4(h, n, a, c) ==
    LET s1 == MulDivStep(h, (n \div 8) % 2, a, c)
        s2 == MulDivStep(s1, (n \div 4) % 2, a, c)
        s3 == MulDivStep(s2, (n \div 2) % 2, a, c)
        s4 == MulDivStep(s3, n % 2, a, c)
    IN  <<s1, s2, s3, s4>>[4]

\* <<q, r>> with a * b = q * c + r and 0 <= r < c   (c > 0), b taken four
\* bits at a time from the highest down; the pair of the higher bits is
\* computed first
RECURSIVE MulDivQR(_, _, _)
MulDivQR(a, b, c) ==
    IF a = 0 \/ b = 0 THEN <<0, 0>>
    ELSE LET h == MulDivQR(a, b \div 16, c)
         IN  <<h, MulDivStep4(h, b % 16, a, c)>>[2]

\* a * b / c, truncating
MulDiv(a, b, c) == MulDivQR(a, b, c)[1]
\* a * b / c, rounded up
MulDivCeil(a, b, c) ==
    LET h == MulDivQR(a, b, c) IN IF h[2] = 0 THEN h[1] ELSE h[1] + 1

Max(a, b) == IF a >= b THEN a ELSE b

---------------------------------------------------------------------------
(* Swap math: raydium_library::amm::swap_with_slippage, as called at       *)
(* executor.rs:277.  The crate is not part of the source tree; the         *)
(* arithmetic is the one the specification gives for the QuoteEngine.      *)

Coin2PC == "Coin2PC"
PC2Coin == "PC2Coin"
ArithmeticError == [ok |-> FALSE, other |-> 0, threshold |-> 0]

\* the reserve the input side adds to / the output side draws from
InReserve(pc_amount, coin_amount, dir) == IF dir = Coin2PC THEN coin_amount ELSE pc_amount
OutReserve(pc_amount, coin_amount, dir) == IF dir = Coin2PC THEN pc_amount ELSE coin_amount

\* amount_in * (fee_den - fee_num) / fee_den
AmountInAfterFee(amount_in, fee_num, fee_den) == MulDiv(amount_in, fee_den - fee_num, fee_den)

\* out_reserve - (in_reserve * out_reserve) / (in_reserve + amount_in_after_fee)
SwapOutput(in_reserve, out_reserve, after_fee) ==
    out_reserve - MulDiv(in_reserve, out_reserve, in_reserve + after_fee)

\* ExactOut: the least input (fee included) whose ExactIn output reaches
\* amount_out; None when no input does.
RequiredInput(in_reserve, out_reserve, amount_out, fee_num, fee_den) ==
    IF amount_out > out_reserve THEN None
    ELSE LET k == out_reserve - amount_out
             \* least x with (in*out) / (in + x) <= k
             x == Max(0, MulDiv(in_reserve, out_reserve, k + 1) + 1 - in_reserve)
         IN  IF x = 0 /\ in_reserve > 0 THEN Some(0)
             ELSE IF fee_den = fee_num THEN None
             ELSE Some(MulDivCeil(x, fee_den, fee_den - fee_num))

swap_with_slippage(pc_amount, coin_amount, fee_num, fee_den, dir, amount, swap_base_in, slippage_bps) ==
    LET in_reserve == InReserve(pc_amount, coin_amount, dir)
        out_reserve == OutReserve(pc_amount, coin_amount, dir)
    IN  IF fee_den = 0 \/ fee_num > fee_den THEN ArithmeticError
        ELSE IF swap_base_in
        THEN LET after_fee == AmountInAfterFee(amount, fee_num, fee_den)
             IN  IF in_reserve + after_fee = 0 \/ slippage_bps > 10000
                 THEN ArithmeticError
                 ELSE LET output == SwapOutput(in_reserve, out_reserve, after_fee)
                      IN  [ok |-> TRUE, other |-> output,
                           threshold |-> MulDiv(output, 10000 - slippage_bps, 10000)]
        ELSE LET req == RequiredInput(in_reserve, out_reserve, amount, fee_num, fee_den)
             IN  IF ~IsSome(req) THEN ArithmeticError
                 ELSE [ok |-> TRUE, other |-> Unwrap(req),
                       threshold |-> MulDiv(Unwrap(req), 10000 + slippage_bps, 10000)]


---------------------------------------------------------------------------
(* The ledger: binary accounts at addresses.  An account is a record of    *)
(* its byte length and of the fields its layout holds.                     *)

\* size of the fixed binary layout an account of this kind is decoded against
LayoutSize(kind) ==
    CASE kind = "amm" -> 752
      [] kind = "target" -> 2208
      [] kind \in {"pc_vault", "coin_vault"} -> 165
      [] kind = "open_orders" -> 3228
      [] kind = "market" -> 388
      [] OTHER -> 262156

FeeFractions == {<<25, 10000>>, <<1, 4>>}

AmmAccount(len, orderbook, fee, pool) ==
    [len |-> len, orderbook |-> orderbook,
     coin_decimals |-> 9, pc_decimals |-> 6,
     swap_fee_numerator |-> fee[1], swap_fee_denominator |-> fee[2],
     coin_mint |-> CoinMint, pc_mint |-> PcMint,
     coin_vault |-> Addr(pool, "coin_vault"), pc_vault |-> Addr(pool, "pc_vault"),
     target_orders |-> Addr(pool, "target"), open_orders |-> Addr(pool, "open_orders"),
     market |-> Addr(pool, "market"), market_program |-> <<"openbook", "program">>,
     lp_mint |-> Addr(pool, "lp_mint"), nonce |-> 254]
TokenAccount(len, amount) == [len |-> len, amount |-> amount]
OpenOrdersAccount(len) == [len |-> len, native_pc_total |-> 1, native_coin_total |-> 1]
MarketAccount(len, pool) ==
    [len |-> len, event_q |-> Addr(pool, "event_q"),
     bids |-> Addr(pool, "bids"), asks |-> Addr(pool, "asks"),
     coin_vault |-> Addr(pool, "market_base_vault"),
     pc_vault |-> Addr(pool, "market_quote_vault"),
     vault_signer_key |-> Addr(pool, "market_authority")]
PlainAccount(len) == [len |-> len]

\* the accounts of one healthy pool
PoolAccounts(pool, pc_amount, coin_amount, fee, orderbook) ==
    [k \in AccountKinds |->
        CASE k = "amm" -> Some(AmmAccount(LayoutSize(k), orderbook, fee, pool))
          [] k = "pc_vault" -> Some(TokenAccount(LayoutSize(k), pc_amount))
          [] k = "coin_vault" -> Some(TokenAccount(LayoutSize(k), coin_amount))
          [] k = "open_orders" -> Some(OpenOrdersAccount(LayoutSize(k)))
          [] k = "market" -> Some(MarketAccount(LayoutSize(k), pool))
          [] OTHER -> Some(PlainAccount(LayoutSize(k)))]

\* one account absent, truncated by a byte, or a byte too long
Damaged(accounts, kind, how) ==
    [accounts EXCEPT ![kind] =
        CASE how = "absent" -> None
          [] how = "short" -> Some([Unwrap(@) EXCEPT !.len = @ - 1])
          [] OTHER -> Some([Unwrap(@) EXCEPT !.len = @ + 1])]

P1 == <<"P1", "amm">>
PW == <<"PW", "amm">>
P2 == <<"P2", "amm">>
P3 == <<"P3", "amm">>

\* the states of pool P1 the model starts from
P1Variants ==
    {PoolAccounts(P1, pca, coin, fee, FALSE) :
        pca \in 0..MaxReserve, coin \in 0..MaxReserve, fee \in FeeFractions}
    \cup {PoolAccounts(P1, pca, coin, <<25, 10000>>, TRUE) :
        pca \in 0..MaxReserve, coin \in 0..MaxReserve}
    \cup {Damaged(PoolAccounts(P1, 2, 3, <<25, 10000>>, ob), k, how) :
        ob \in BOOLEAN, k \in AccountKinds, how \in {"absent", "short", "long"}}

\* the pool of the specification's worked example: Rin = coin = 1_000_000_000,
\* Rout = pc = 2_000_000_000, fee 25/10000
PWAccounts == PoolAccounts(PW, 2000000000, 1000000000, <<25, 10000>>, FALSE)

LedgerOf(p1) ==
    [a \in Addrs |->
        CASE a[1] = "P1" -> p1[a[2]]
          [] a[1] = "PW" -> PWAccounts[a[2]]
          [] OTHER -> None]

---------------------------------------------------------------------------
(* The metadata service (ApiV3Client): what it may answer.                 *)

Pool(id, program_id, mint_a, mint_b) ==
    [id |-> id, program_id |-> program_id, mint_a |-> mint_a, mint_b |-> mint_b]

Candidates ==
    {Pool(P1, RAYDIUM_LIQUIDITY_POOL_V4_PROGRAM_ID, CoinMint, PcMint),
     Pool(PW, RAYDIUM_LIQUIDITY_POOL_V4_PROGRAM_ID, CoinMint, PcMint),
     Pool(P2, OTHER_PROGRAM_ID, CoinMint, PcMint),
     Pool(P3, RAYDIUM_LIQUIDITY_POOL_V4_PROGRAM_ID, CoinMint, OtherMint)}

\* an ordered page of candidate pools
Pages == UNION {[1..n -> Candidates] : n \in 0..MaxPage}

\* the market sub-keys of a key bundle
ApiMarketKeys(pool) ==
    [market_program_id |-> <<"openbook", "program">>,
     market_id |-> Addr(pool, "market"),
     market_event_queue |-> Addr(pool, "event_q"),
     market_bids |-> Addr(pool, "bids"),
     market_asks |-> Addr(pool, "asks"),
     market_base_vault |-> Addr(pool, "market_base_vault"),
     market_quote_vault |-> Addr(pool, "market_quote_vault"),
     market_authority |-> Addr(pool, "market_authority")]

\* ApiV3StandardPoolKeys for `pool`, with its optional sub-keys present or not
KeyBundle(pool, has_target, has_open, has_market) ==
    [id |-> pool, mint_a |-> CoinMint, mint_b |-> PcMint,
     vault_a |-> Addr(pool, "coin_vault"), vault_b |-> Addr(pool, "pc_vault"),
     authority |-> <<"amm_authority", "pda">>,
     mint_lp |-> Addr(pool, "lp_mint"),
     target_orders |-> IF has_target THEN Some(Addr(pool, "target")) ELSE None,
     open_orders |-> IF has_open THEN Some(Addr(pool, "open_orders")) ELSE None,
     market |-> IF has_market THEN Some(ApiMarketKeys(pool)) ELSE None]

\* the answers to fetch_pool_keys_by_ids([pool]): no bundle, or one
KeyResponses(pool) ==
    {<<>>} \cup {<<KeyBundle(pool, t, o, m)>> : t \in BOOLEAN, o \in BOOLEAN, m \in BOOLEAN}


---------------------------------------------------------------------------
(* Results.  anyhow errors are told apart by the failure class of the site *)
(* that raises them; a panic (unwrap on None or Err) aborts the call.      *)

NoResult == [kind |-> "none", err |-> "", quote |-> None]
Err(e) == [kind |-> "err", err |-> e, quote |-> None]
Panic == [kind |-> "panic", err |-> "", quote |-> None]
Ok(q) == [kind |-> "ok", err |-> "", quote |-> Some(q)]

\* Result<T, anyhow::Error> of a helper
Failed(e) == [ok |-> FALSE, err |-> e]
Good(v) == [ok |-> TRUE, val |-> v]

---------------------------------------------------------------------------
(* Pool selection: the find_map closure of quote.                          *)

PoolMatches(pool, input_mint, output_mint) ==
    \/ (pool.mint_a = input_mint /\ pool.mint_b = output_mint)
    \/ (/\ pool.mint_a = output_mint
        /\ pool.mint_b = input_mint
        /\ pool.program_id = RAYDIUM_LIQUIDITY_POOL_V4_PROGRAM_ID)

\* response.pools.into_iter().find_map(..): the id of the first match
FindPool(pools, input_mint, output_mint) ==
    LET hits == {i \in 1..Len(pools) : PoolMatches(pools[i], input_mint, output_mint)}
    IN  IF hits = {} THEN None
        ELSE Some(pools[CHOOSE i \in hits : \A j \in hits : i <= j].id)

---------------------------------------------------------------------------
(* Key resolution.                                                         *)

\* From<&api_v3::..::MarketKeys> for MarketKeys
MarketKeysFromApiMarket(keys) ==
    [event_queue |-> keys.market_event_queue,
     bids |-> keys.market_bids,
     asks |-> keys.market_asks,
     coin_vault |-> keys.market_base_vault,
     pc_vault |-> keys.market_quote_vault,
     vault_signer_key |-> keys.market_authority]

\* TryFrom<&ApiV3StandardPoolKeys> for MarketKeys
MarketKeysTryFrom(keys) ==
    IF ~IsSome(keys.market) THEN Failed("DecodeError")
    ELSE Good(MarketKeysFromApiMarket(Unwrap(keys.market)))

\* faulty variant: a missing target-orders or open-orders key becomes the default address
AmmKeysTryFromDefaulting(keys) ==
    IF ~IsSome(keys.market) THEN Failed("DecodeError")
    ELSE Good([amm_pool |-> keys.id,
               amm_coin_mint |-> keys.mint_a,
               amm_pc_mint |-> keys.mint_b,
               amm_authority |-> keys.authority,
               amm_target |-> IF IsSome(keys.target_orders) THEN Unwrap(keys.target_orders)
                              ELSE <<"11111111111111111111111111111111", "default">>,
               amm_coin_vault |-> keys.vault_a,
               amm_pc_vault |-> keys.vault_b,
               amm_lp_mint |-> keys.mint_lp,
               amm_open_order |-> IF IsSome(keys.open_orders) THEN Unwrap(keys.open_orders)
                                  ELSE <<"11111111111111111111111111111111", "default">>,
               market_program |-> Unwrap(keys.market).market_program_id,
               market |-> Unwrap(keys.market).market_id,
               nonce |-> 0])

\* TryFrom<&ApiV3StandardPoolKeys> for AmmKeys
AmmKeysTryFrom(keys) ==
    IF ~IsSome(keys.market) THEN Failed("DecodeError")
    ELSE IF ~IsSome(keys.target_orders) THEN Failed("DecodeError")
    ELSE IF ~IsSome(keys.open_orders) THEN Failed("DecodeError")
    ELSE Good([amm_pool |-> keys.id,
               amm_coin_mint |-> keys.mint_a,
               amm_pc_mint |-> keys.mint_b,
               amm_authority |-> keys.authority,
               amm_target |-> Unwrap(keys.target_orders),
               amm_coin_vault |-> keys.vault_a,
               amm_pc_vault |-> keys.vault_b,
               amm_lp_mint |-> keys.mint_lp,
               amm_open_order |-> Unwrap(keys.open_orders),
               market_program |-> Unwrap(keys.market).market_program_id,
               market |-> Unwrap(keys.market).market_id,
               nonce |-> 0])

\* raydium_library::amm::utils::load_amm_keys: the keys embedded in the pool account
load_amm_keys(account, pool) ==
    IF ~IsSome(account) THEN Failed("NotFound")
    ELSE IF Unwrap(account).len # LayoutSize("amm") THEN Failed("DecodeError")
    ELSE LET a == Unwrap(account)
         IN  Good([amm_pool |-> pool,
                   amm_coin_mint |-> a.coin_mint,
                   amm_pc_mint |-> a.pc_mint,
                   amm_authority |-> <<"amm_authority", "pda">>,
                   amm_target |-> a.target_orders,
                   amm_coin_vault |-> a.coin_vault,
                   amm_pc_vault |-> a.pc_vault,
                   amm_lp_mint |-> a.lp_mint,
                   amm_open_order |-> a.open_orders,
                   market_program |-> a.market_program,
                   market |-> a.market,
                   nonce |-> a.nonce])

\* raydium_library::amm::openbook::get_keys_for_market, then
\* From<&raydium_library::amm::MarketPubkeys> for MarketKeys
get_keys_for_market(account) ==
    IF ~IsSome(account) THEN Failed("NotFound")
    ELSE IF Unwrap(account).len # LayoutSize("market") THEN Failed("DecodeError")
    ELSE LET m == Unwrap(account)
         IN  Good([event_queue |-> m.event_q,
                   bids |-> m.bids,
                   asks |-> m.asks,
                   coin_vault |-> m.coin_vault,
                   pc_vault |-> m.pc_vault,
                   vault_signer_key |-> m.vault_signer_key])


---------------------------------------------------------------------------
(* The account snapshot and the quote computed from it.                    *)

\* faulty variant: the coin vault is requested before the pc vault
LoadPubkeysVaultsSwapped(pool, ak, mk) ==
    <<pool, ak.amm_target, ak.amm_coin_vault, ak.amm_pc_vault,
      ak.amm_open_order, ak.market, mk.event_queue>>

\* the addresses of the one batched read, in request order
LoadPubkeys(pool, ak, mk) ==
    <<pool, ak.amm_target, ak.amm_pc_vault, ak.amm_coin_vault,
      ak.amm_open_order, ak.market, mk.event_queue>>

\* crate::utils::get_multiple_account_data: one slot per address, in order
get_multiple_account_data(ldg, addrs) == [i \in 1..Len(addrs) |-> ldg[addrs[i]]]

\* safe_transmute::transmute_one_pedantic: the blob must have exactly the layout's size
transmute_one_pedantic(account, kind) ==
    IF account.len # LayoutSize(kind) THEN Failed("DecodeError") ELSE Good(account)

\* spl_token::state::Account::unpack
TokenAccountUnpack(account) ==
    IF account.len # LayoutSize("pc_vault") THEN Failed("DecodeError") ELSE Good(account)

\* SwapExecutionMode::amount_specified_is_input
AmountSpecifiedIsInput(mode) == mode = "ExactIn"

\* Calculator::calc_total_without_take_pnl_no_orderbook
CalcTotalNoOrderbook(pc_amount, coin_amount) == Good(<<pc_amount, coin_amount>>)

\* Processor::load_serum_market_order, then Calculator::calc_total_without_take_pnl:
\* the vault balances plus what rests in the pool's open orders
CalcTotalOrderbook(pc_amount, coin_amount, open_orders, market) ==
    IF \/ open_orders.len # LayoutSize("open_orders")
       \/ market.len # LayoutSize("market")
    THEN Failed("DecodeError")
    ELSE Good(<<pc_amount + open_orders.native_pc_total,
                coin_amount + open_orders.native_coin_total>>)

\* faulty variant: the input mint is compared with the pc mint
SelectDirectionInverted(si, ak) ==
    IF si.input_token_mint = ak.amm_pc_mint /\ si.output_token_mint = ak.amm_coin_mint
    THEN <<Coin2PC, TRUE>>
    ELSE <<PC2Coin, FALSE>>

\* executor.rs:268: the direction and the coin_to_pc flag
SelectDirection(si, ak) ==
    IF si.input_token_mint = ak.amm_coin_mint /\ si.output_token_mint = ak.amm_pc_mint
    THEN <<Coin2PC, TRUE>>
    ELSE <<PC2Coin, FALSE>>

\* faulty variant: the two reserves are passed in the opposite order
SwapCallReservesSwapped(si, amm, dir, amm_pool_pc_vault_amount, amm_pool_coin_vault_amount) ==
    swap_with_slippage(amm_pool_coin_vault_amount, amm_pool_pc_vault_amount,
                       amm.swap_fee_numerator, amm.swap_fee_denominator,
                       dir, si.amount, AmountSpecifiedIsInput(si.mode), si.slippage_bps)

\* executor.rs:277-286: the call of swap_with_slippage
SwapCall(si, amm, dir, amm_pool_pc_vault_amount, amm_pool_coin_vault_amount) ==
    swap_with_slippage(amm_pool_pc_vault_amount, amm_pool_coin_vault_amount,
                       amm.swap_fee_numerator, amm.swap_fee_denominator,
                       dir, si.amount, AmountSpecifiedIsInput(si.mode), si.slippage_bps)

\* executor.rs:301-310: `as u8` on a u64 keeps the low eight bits
AsU8(x) == x % 256

\* faulty variant: other_amount and its threshold are stored in each other's field
MakeQuoteFieldsSwapped(si, pool, ak, mk, amm, coin_to_pc, swapped) ==
    [market |-> pool,
     input_mint |-> si.input_token_mint,
     output_mint |-> si.output_token_mint,
     amount |-> si.amount,
     other_amount |-> swapped.threshold,
     other_amount_threshold |-> swapped.other,
     amount_specified_is_input |-> AmountSpecifiedIsInput(si.mode),
     input_mint_decimals |-> AsU8(IF coin_to_pc THEN amm.coin_decimals ELSE amm.pc_decimals),
     output_mint_decimals |-> AsU8(IF coin_to_pc THEN amm.pc_decimals ELSE amm.coin_decimals),
     amm_keys |-> ak,
     market_keys |-> mk]

\* executor.rs:293: the RaydiumAmmQuote returned; the decimals are cast `as u8`
MakeQuote(si, pool, ak, mk, amm, coin_to_pc, swapped) ==
    [market |-> pool,
     input_mint |-> si.input_token_mint,
     output_mint |-> si.output_token_mint,
     amount |-> si.amount,
     other_amount |-> swapped.other,
     other_amount_threshold |-> swapped.threshold,
     amount_specified_is_input |-> AmountSpecifiedIsInput(si.mode),
     input_mint_decimals |-> AsU8(IF coin_to_pc THEN amm.coin_decimals ELSE amm.pc_decimals),
     output_mint_decimals |-> AsU8(IF coin_to_pc THEN amm.pc_decimals ELSE amm.coin_decimals),
     amm_keys |-> ak,
     market_keys |-> mk]

\* executor.rs:210-313: reserves, direction, swap math, the quote
QuoteFromState(si, pool, ak, mk, amm, pc_vault, coin_vault, open_orders, market, event_q) ==
    LET ob == amm.orderbook
    IN  IF ob /\ (~IsSome(open_orders) \/ ~IsSome(market) \/ ~IsSome(event_q))
        THEN [res |-> Panic, dir |-> "none"]
        ELSE LET totals == IF ob
                           THEN CalcTotalOrderbook(pc_vault.amount, coin_vault.amount,
                                                   Unwrap(open_orders), Unwrap(market))
                           ELSE CalcTotalNoOrderbook(pc_vault.amount, coin_vault.amount)
             IN  IF ~totals.ok THEN [res |-> Err(totals.err), dir |-> "none"]
                 ELSE LET d == SelectDirection(si, ak)
                          swapped == SwapCall(si, amm, d[1], totals.val[1], totals.val[2])
                      IN  IF ~swapped.ok
                          THEN [res |-> Err("ArithmeticError"), dir |-> d[1]]
                          ELSE [res |-> Ok(MakeQuote(si, pool, ak, mk, amm, d[2], swapped)),
                                dir |-> d[1]]

\* executor.rs:181-209: destructure the snapshot and decode its accounts
QuoteFromSnapshot(snapshot, si, pool, ak, mk) ==
    LET amm_account == snapshot[1]
        amm_target_account == snapshot[2]
        amm_pc_vault_account == snapshot[3]
        amm_coin_vault_account == snapshot[4]
        amm_open_orders_account == snapshot[5]
        market_account == snapshot[6]
        market_event_q_account == snapshot[7]
        fail(r) == [res |-> r, dir |-> "none"]
    IN  IF ~IsSome(amm_account) THEN fail(Err("NotFound"))
        ELSE IF ~transmute_one_pedantic(Unwrap(amm_account), "amm").ok
        THEN fail(Err("DecodeError"))
        ELSE IF ~IsSome(amm_target_account) THEN fail(Panic)
        ELSE IF ~transmute_one_pedantic(Unwrap(amm_target_account), "target").ok
        THEN fail(Err("DecodeError"))
        ELSE IF ~IsSome(amm_pc_vault_account) THEN fail(Panic)
        ELSE IF ~TokenAccountUnpack(Unwrap(amm_pc_vault_account)).ok THEN fail(Panic)
        ELSE IF ~IsSome(amm_coin_vault_account) THEN fail(Panic)
        ELSE IF ~TokenAccountUnpack(Unwrap(amm_coin_vault_account)).ok THEN fail(Panic)
        ELSE QuoteFromState(si, pool, ak, mk, Unwrap(amm_account),
                            Unwrap(amm_pc_vault_account), Unwrap(amm_coin_vault_account),
                            amm_open_orders_account, market_account, market_event_q_account)

---------------------------------------------------------------------------
(* RaydiumAmm::quote, one action per await.                                *)

Slippages == {0, 100, 10000, 10001}
Modes == {"ExactIn", "ExactOut"}
\* the requests of the model: small amounts against any pool, and the
\* worked example's amount and slippage against its pool
SwapInputs ==
    [input_token_mint : Mints, output_token_mint : Mints, slippage_bps : Slippages,
     amount : 0..MaxAmount, mode : Modes, market : {None, Some(P1)}]
    \cup [input_token_mint : {CoinMint, PcMint}, output_token_mint : {CoinMint, PcMint},
          slippage_bps : {100}, amount : {1000000}, mode : Modes, market : {Some(PW)}]

NoKeys == None
NoBuilt == [kind |-> "none"]
\* the tasks that call swap_instructions / swap_transaction on the one executor
Callers == {"A", "B"}
NoneInFlight == EmptyBag
NoInput == [input_token_mint |-> CoinMint, output_token_mint |-> CoinMint,
            slippage_bps |-> 0, amount |-> 0, mode |-> "ExactIn", market |-> None]

\* the caller takes the result; the executor keeps nothing of the call
QuoteDone ==
    /\ pc = "done"
    /\ pc' = "idle"
    /\ res' = NoResult
    /\ pool_id' = None
    /\ amm_keys' = NoKeys
    /\ market_keys' = NoKeys
    /\ direction' = "none"
    /\ apiCalls' = <<>>
    /\ rpcCalls' = <<>>
    /\ swap_input' = NoInput
    /\ rsps' = <<>>
    /\ UNCHANGED <<config, load_keys_by_api, ledger, built, in_flight>>

\* what the metadata service may answer: a transport failure or a response
PageAnswers == {Failed("UpstreamError")} \cup {Good(p) : p \in Pages}
KeyAnswers(pool) == {Failed("UpstreamError")} \cup {Good(k) : k \in KeyResponses(pool)}

\* the call returns `r`
Return(r) ==
    /\ res' = r
    /\ pc' = "done"

\* faulty variant: the equal-mint check is dropped
SameMintUnchecked(si) == FALSE

\* executor.rs:93: the only validation of the caller's input
SameMint(si) == si.input_token_mint = si.output_token_mint

\* executor.rs:90-134 up to the first await
QuoteStart(si) ==
    /\ pc = "idle"
    /\ swap_input' = si
    /\ apiCalls' = <<>>
    /\ rpcCalls' = <<>>
    /\ amm_keys' = NoKeys
    /\ market_keys' = NoKeys
    /\ direction' = "none"
    /\ rsps' = <<>>
    /\ IF SameMint(si)
       THEN /\ Return(Err("ValidationError"))
            /\ pool_id' = None
       ELSE /\ pool_id' = si.market
            /\ res' = NoResult
            /\ pc' = IF IsSome(si.market) THEN "keys" ELSE "pool_lookup"
    /\ UNCHANGED <<config, load_keys_by_api, ledger, built, in_flight>>

\* executor.rs:104-134: fetch_pool_by_mints answers
QuotePoolLookup(answer) ==
    /\ pc = "pool_lookup"
    /\ apiCalls' = Append(apiCalls, [op |-> "fetch_pool_by_mints",
                                     arg |-> <<swap_input.input_token_mint,
                                               swap_input.output_token_mint>>])
    /\ IF ~answer.ok
       THEN Return(Err("UpstreamError")) /\ UNCHANGED pool_id
       ELSE LET found == FindPool(answer.val, swap_input.input_token_mint,
                                  swap_input.output_token_mint)
            IN  /\ pool_id' = found
                /\ IF IsSome(found)
                   THEN pc' = "keys" /\ UNCHANGED res
                   ELSE Return(Err("NotFound"))
    /\ UNCHANGED <<config, load_keys_by_api, ledger, swap_input, amm_keys, market_keys,
                   direction, rpcCalls, built, in_flight, rsps>>

\* executor.rs:136-148: fetch_pool_keys_by_ids answers
QuoteKeysByApi ==
    /\ pc = "keys"
    /\ load_keys_by_api
    /\ \E answer \in KeyAnswers(Unwrap(pool_id)) :
        /\ apiCalls' = Append(apiCalls, [op |-> "fetch_pool_keys_by_ids",
                                         arg |-> <<Unwrap(pool_id)>>,
                                         answer |-> answer])
        /\ IF ~answer.ok
           THEN Return(Err("UpstreamError")) /\ UNCHANGED <<amm_keys, market_keys>>
           ELSE IF answer.val = <<>>
           THEN Return(Err("NotFound")) /\ UNCHANGED <<amm_keys, market_keys>>
           ELSE LET ak == AmmKeysTryFrom(answer.val[1])
                    mk == MarketKeysTryFrom(answer.val[1])
                IN  IF ~ak.ok THEN Return(Err(ak.err)) /\ UNCHANGED <<amm_keys, market_keys>>
                    ELSE IF ~mk.ok
                    THEN Return(Err(mk.err)) /\ UNCHANGED <<amm_keys, market_keys>>
                    ELSE /\ amm_keys' = Some(ak.val)
                         /\ market_keys' = Some(mk.val)
                         /\ pc' = "snapshot"
                         /\ UNCHANGED res
    /\ UNCHANGED <<config, load_keys_by_api, ledger, swap_input, pool_id, direction,
                   rpcCalls, built, in_flight, rsps>>

\* executor.rs:150-155: load_amm_keys reads the pool account
QuoteLoadAmmKeys(rpc_ok) ==
    /\ pc = "keys"
    /\ ~load_keys_by_api
    /\ rpcCalls' = Append(rpcCalls, <<Unwrap(pool_id)>>)
    /\ IF ~rpc_ok
       THEN Return(Err("UpstreamError")) /\ UNCHANGED amm_keys
       ELSE LET ak == load_amm_keys(ledger[Unwrap(pool_id)], Unwrap(pool_id))
            IN  IF ~ak.ok THEN Return(Err(ak.err)) /\ UNCHANGED amm_keys
                ELSE /\ amm_keys' = Some(ak.val)
                     /\ pc' = "market_keys"
                     /\ UNCHANGED res
    /\ UNCHANGED <<config, load_keys_by_api, ledger, swap_input, pool_id, market_keys,
                   direction, apiCalls, built, in_flight, rsps>>

\* executor.rs:157-164: get_keys_for_market reads the market account
QuoteLoadMarketKeys(rpc_ok) ==
    /\ pc = "market_keys"
    /\ rpcCalls' = Append(rpcCalls, <<Unwrap(amm_keys).market>>)
    /\ IF ~rpc_ok
       THEN Return(Err("UpstreamError")) /\ UNCHANGED market_keys
       ELSE LET mk == get_keys_for_market(ledger[Unwrap(amm_keys).market])
            IN  IF ~mk.ok THEN Return(Err(mk.err)) /\ UNCHANGED market_keys
                ELSE /\ market_keys' = Some(mk.val)
                     /\ pc' = "snapshot"
                     /\ UNCHANGED res
    /\ UNCHANGED <<config, load_keys_by_api, ledger, swap_input, pool_id, amm_keys,
                   direction, apiCalls, built, in_flight, rsps>>

\* executor.rs:169-313: the batched read, then everything computed from it
QuoteSnapshot(rpc_ok) ==
    /\ pc = "snapshot"
    /\ LET addrs == LoadPubkeys(Unwrap(pool_id), Unwrap(amm_keys), Unwrap(market_keys))
       IN  /\ rpcCalls' = Append(rpcCalls, addrs)
           /\ IF ~rpc_ok
              THEN Return(Err("UpstreamError")) /\ UNCHANGED <<direction, rsps>>
              ELSE LET data == get_multiple_account_data(ledger, addrs)
                       out == QuoteFromSnapshot(data, swap_input, Unwrap(pool_id),
                                                Unwrap(amm_keys), Unwrap(market_keys))
                   IN  Return(out.res) /\ direction' = out.dir /\ rsps' = data
    /\ UNCHANGED <<config, load_keys_by_api, ledger, swap_input, pool_id, amm_keys,
                   market_keys, apiCalls, built, in_flight>>


---------------------------------------------------------------------------
(* Construction and the specification of quoting.                          *)

\* RaydiumAmmExecutorOpts
Opts(priority_fee, cu_limits, wrap_and_unwrap_sol, by_api) ==
    [priority_fee |-> priority_fee, cu_limits |-> cu_limits,
     wrap_and_unwrap_sol |-> wrap_and_unwrap_sol, load_keys_by_api |-> by_api]

\* RaydiumAmm::new: the fields it sets from the options
NewConfig(opts) ==
    [priority_fee |-> opts.priority_fee,
     cu_limits |-> opts.cu_limits,
     wrap_and_unwrap_sol |-> opts.wrap_and_unwrap_sol,
     as_legacy_transaction |-> Some(TRUE)]
NewLoadKeysByApi(opts) ==
    IF IsSome(opts.load_keys_by_api) THEN Unwrap(opts.load_keys_by_api) ELSE TRUE

\* the state after RaydiumAmm::new(client, opts, api), no call in flight
Constructed(opts) ==
    /\ config = NewConfig(opts)
    /\ load_keys_by_api = NewLoadKeysByApi(opts)
    /\ pc = "idle"
    /\ swap_input = NoInput
    /\ pool_id = None
    /\ amm_keys = NoKeys
    /\ market_keys = NoKeys
    /\ direction = "none"
    /\ apiCalls = <<>>
    /\ rpcCalls = <<>>
    /\ rsps = <<>>
    /\ res = NoResult
    /\ built = NoBuilt
    /\ in_flight = NoneInFlight

\* an executor built with RaydiumAmmExecutorOpts::default() but for
\* load_keys_by_api, over any of the modelled ledgers
Init ==
    /\ \E by_api \in {None, Some(TRUE), Some(FALSE)} :
            Constructed(Opts(None, None, None, by_api))
    /\ ledger \in {LedgerOf(v) : v \in P1Variants}

Next ==
    \/ \E si \in SwapInputs : QuoteStart(si)
    \/ \E answer \in PageAnswers : QuotePoolLookup(answer)
    \/ QuoteKeysByApi
    \/ \E rpc_ok \in BOOLEAN : QuoteLoadAmmKeys(rpc_ok)
    \/ \E rpc_ok \in BOOLEAN : QuoteLoadMarketKeys(rpc_ok)
    \/ \E rpc_ok \in BOOLEAN : QuoteSnapshot(rpc_ok)
    \/ QuoteDone

Spec == Init /\ [][Next]_vars


---------------------------------------------------------------------------
(* Properties of quote.                                                    *)

Returned == pc = "done"
ReturnedQuote == pc = "done" /\ res.kind = "ok"
TheQuote == Unwrap(res.quote)
SnapshotRead == pc = "done" /\ Len(rsps) = 7

\* the decoded pool state and the reserves of the snapshot the quote was computed from
SnapAmm == Unwrap(rsps[1])
SnapPcReserve ==
    Unwrap(rsps[3]).amount + (IF SnapAmm.orderbook THEN Unwrap(rsps[5]).native_pc_total ELSE 0)
SnapCoinReserve ==
    Unwrap(rsps[4]).amount + (IF SnapAmm.orderbook THEN Unwrap(rsps[5]).native_coin_total ELSE 0)

\* C1: a request whose input mint equals its output mint fails with
\* ValidationError, and the call issues no metadata-service request and no
\* ledger read.
C1_EqualMintsFailFast ==
    (pc # "idle" /\ swap_input.input_token_mint = swap_input.output_token_mint)
        => /\ pc = "done"
           /\ res = Err("ValidationError")
           /\ apiCalls = <<>>
           /\ rpcCalls = <<>>

C1_Witness ==
    /\ pc = "done"
    /\ swap_input.input_token_mint = swap_input.output_token_mint
    /\ swap_input.market = Some(P1)
    /\ res = Err("ValidationError")

\* C2: in every returned quote with slippage_bps in 0..10000 the threshold is
\* at most other_amount for ExactIn and at least other_amount for ExactOut.
C2_ThresholdSide ==
    (ReturnedQuote /\ swap_input.slippage_bps \in 0..10000)
        => /\ swap_input.mode = "ExactIn"
                => TheQuote.other_amount_threshold <= TheQuote.other_amount
           /\ swap_input.mode = "ExactOut"
                => TheQuote.other_amount_threshold >= TheQuote.other_amount

C2_Witness ==
    /\ ReturnedQuote
    /\ swap_input.mode = "ExactOut"
    /\ swap_input.slippage_bps = 10000
    /\ TheQuote.other_amount > 0
    /\ TheQuote.other_amount_threshold = 2 * TheQuote.other_amount

\* C4: when an account blob that quote decodes (pool state, target orders,
\* pc vault, coin vault) has a length other than its layout's size, quote
\* returns a DecodeError value: it neither panics nor returns a quote.
C4_BadLengthIsDecodeError ==
    (/\ SnapshotRead
     /\ \A i \in 1..4 : IsSome(rsps[i])
     /\ \/ Unwrap(rsps[1]).len # LayoutSize("amm")
        \/ Unwrap(rsps[2]).len # LayoutSize("target")
        \/ Unwrap(rsps[3]).len # LayoutSize("pc_vault")
        \/ Unwrap(rsps[4]).len # LayoutSize("coin_vault"))
        => res = Err("DecodeError")

\* C5: for a pool with coin mint C and pc mint P, the quote for (C, P) has
\* direction coin-to-pc with the coin decimals on the input side, and the
\* quote for (P, C) has direction pc-to-coin with the pc decimals on the
\* input side.
C5_DirectionAntisymmetric ==
    ReturnedQuote =>
        LET ak == TheQuote.amm_keys
        IN  /\ (/\ swap_input.input_token_mint = ak.amm_coin_mint
                /\ swap_input.output_token_mint = ak.amm_pc_mint)
                => /\ direction = Coin2PC
                   /\ TheQuote.input_mint_decimals = SnapAmm.coin_decimals
                   /\ TheQuote.output_mint_decimals = SnapAmm.pc_decimals
            /\ (/\ swap_input.input_token_mint = ak.amm_pc_mint
                /\ swap_input.output_token_mint = ak.amm_coin_mint)
                => /\ direction = PC2Coin
                   /\ TheQuote.input_mint_decimals = SnapAmm.pc_decimals
                   /\ TheQuote.output_mint_decimals = SnapAmm.coin_decimals

C5_Witness ==
    /\ ReturnedQuote
    /\ swap_input.input_token_mint = TheQuote.amm_keys.amm_pc_mint
    /\ swap_input.output_token_mint = TheQuote.amm_keys.amm_coin_mint
    /\ direction = PC2Coin
    /\ TheQuote.input_mint_decimals = 6
    /\ TheQuote.output_mint_decimals = 9

\* the programs under which the metadata service lists a pool id
ListedPrograms(pool) == {c.program_id : c \in {d \in Candidates : d.id = pool}}

\* C6: a pool that quote selects from the metadata-service page is owned by
\* the AMM v4 program.
C6_SelectedPoolIsAmm ==
    (pc # "idle" /\ swap_input.market = None /\ IsSome(pool_id))
        => ListedPrograms(Unwrap(pool_id)) = {RAYDIUM_LIQUIDITY_POOL_V4_PROGRAM_ID}

\* C9: an ExactIn quote has
\*   other_amount = out - (in * out) / (in + amount * (fee_den - fee_num) / fee_den)
\*   other_amount_threshold = other_amount * (10000 - slippage_bps) / 10000
\* with the reserves taken by the direction, and the worked example yields
\* 997500 after the fee, 1993012 out and a threshold of 1973081.
C9_ExactInArithmetic ==
    (ReturnedQuote /\ swap_input.mode = "ExactIn")
        => LET in_reserve == IF direction = Coin2PC THEN SnapCoinReserve ELSE SnapPcReserve
               out_reserve == IF direction = Coin2PC THEN SnapPcReserve ELSE SnapCoinReserve
               fee_num == SnapAmm.swap_fee_numerator
               fee_den == SnapAmm.swap_fee_denominator
               after_fee == MulDiv(swap_input.amount, fee_den - fee_num, fee_den)
           IN  /\ after_fee <= swap_input.amount
               /\ in_reserve + after_fee > 0
               /\ TheQuote.other_amount
                    = out_reserve - MulDiv(in_reserve, out_reserve, in_reserve + after_fee)
               /\ TheQuote.other_amount_threshold
                    = MulDiv(TheQuote.other_amount, 10000 - swap_input.slippage_bps, 10000)
               /\ (/\ TheQuote.market = PW
                   /\ swap_input.input_token_mint = CoinMint
                   /\ swap_input.output_token_mint = PcMint
                   /\ swap_input.amount = 1000000
                   /\ swap_input.slippage_bps = 100)
                    => /\ after_fee = 997500
                       /\ TheQuote.other_amount = 1993012
                       /\ TheQuote.other_amount_threshold = 1973081

C9_Witness ==
    /\ ReturnedQuote
    /\ swap_input.mode = "ExactIn"
    /\ TheQuote.market = PW
    /\ swap_input.input_token_mint = CoinMint
    /\ swap_input.amount = 1000000
    /\ TheQuote.other_amount = 1993012

\* C10: a call whose slippage_bps is above 10000, or whose amount is 0, is
\* rejected with ValidationError before anything is fetched or computed, and
\* no quote is returned for a slippage_bps above 10000.
C10_InvalidInputRejected ==
    /\ (pc # "idle" /\ (swap_input.slippage_bps > 10000 \/ swap_input.amount = 0))
           => (Returned /\ res = Err("ValidationError") /\ apiCalls = <<>> /\ rpcCalls = <<>>)
    /\ ReturnedQuote => swap_input.slippage_bps <= 10000


\* the answers of the key-bundle lookups of the call in flight
KeyLookups == {i \in 1..Len(apiCalls) : apiCalls[i].op = "fetch_pool_keys_by_ids"}
LacksMandatoryKey(bundle) ==
    bundle.target_orders = <<>> \/ bundle.open_orders = <<>> \/ bundle.market = <<>>

\* C11: with keys taken from the metadata service, an answer holding no
\* bundle for the pool fails the call with NotFound, and a bundle lacking its
\* target-orders, open-orders or market keys fails it with DecodeError; no
\* key set is formed from such a bundle and no ledger read is issued.
C11_MissingKeysFail ==
    \A i \in KeyLookups :
        LET answer == apiCalls[i].answer
        IN  /\ (answer.ok /\ answer.val = <<>>) =>
                /\ Returned /\ res = Err("NotFound")
                /\ amm_keys = <<>> /\ market_keys = <<>> /\ rpcCalls = <<>>
            /\ (answer.ok /\ answer.val # <<>> /\ LacksMandatoryKey(answer.val[1])) =>
                /\ Returned /\ res = Err("DecodeError")
                /\ amm_keys = <<>> /\ market_keys = <<>> /\ rpcCalls = <<>>

\* C11 witness: the service answered a bundle without open-orders keys, and
\* the call failed with DecodeError.
C11_Witness ==
    /\ Returned
    /\ load_keys_by_api
    /\ \E i \in KeyLookups :
        /\ apiCalls[i].answer.ok
        /\ apiCalls[i].answer.val # <<>>
        /\ apiCalls[i].answer.val[1].open_orders = <<>>
        /\ apiCalls[i].answer.val[1].target_orders # <<>>
        /\ apiCalls[i].answer.val[1].market # <<>>
    /\ res = Err("DecodeError")
    /\ rpcCalls = <<>>


---------------------------------------------------------------------------
(* Quoting while other parties' transactions change the pool's accounts.   *)

\* a transaction of another party: both vault balances and the pool's fee
\* change in one ledger step
LedgerUpdate(pc_amount, coin_amount, fee) ==
    /\ IsSome(ledger[Addr(P1, "amm")])
    /\ IsSome(ledger[Addr(P1, "pc_vault")])
    /\ IsSome(ledger[Addr(P1, "coin_vault")])
    /\ ledger' = [ledger EXCEPT
            ![Addr(P1, "amm")] = Some([Unwrap(@) EXCEPT !.swap_fee_numerator = fee[1],
                                                        !.swap_fee_denominator = fee[2]]),
            ![Addr(P1, "pc_vault")] = Some([Unwrap(@) EXCEPT !.amount = pc_amount]),
            ![Addr(P1, "coin_vault")] = Some([Unwrap(@) EXCEPT !.amount = coin_amount])]
    /\ ledger' # ledger
    /\ UNCHANGED <<config, load_keys_by_api, pc, swap_input, pool_id, amm_keys, market_keys,
                   direction, apiCalls, rpcCalls, rsps, res, built, in_flight>>

\* the requests made while the ledger moves
LedgerInputs ==
    [input_token_mint : {CoinMint, PcMint}, output_token_mint : {CoinMint, PcMint},
     slippage_bps : {0, 100}, amount : 1..MaxAmount, mode : Modes,
     market : {None, Some(P1)}]

InitLedger ==
    /\ \E by_api \in {Some(TRUE), Some(FALSE)} : Constructed(Opts(None, None, None, by_api))
    /\ ledger \in {LedgerOf(PoolAccounts(P1, 1, 2, <<25, 10000>>, ob)) : ob \in BOOLEAN}

NextLedger ==
    \/ \E si \in LedgerInputs : QuoteStart(si)
    \/ \E answer \in PageAnswers : QuotePoolLookup(answer)
    \/ QuoteKeysByApi
    \/ \E rpc_ok \in BOOLEAN : QuoteLoadAmmKeys(rpc_ok)
    \/ \E rpc_ok \in BOOLEAN : QuoteLoadMarketKeys(rpc_ok)
    \/ \E rpc_ok \in BOOLEAN : QuoteSnapshot(rpc_ok)
    \/ QuoteDone
    \/ \E pca \in 0..MaxReserve, coin \in 0..MaxReserve, fee \in FeeFractions :
            LedgerUpdate(pca, coin, fee)

SpecLedger == InitLedger /\ [][NextLedger]_vars

\* the batched reads among the ledger reads of the call in flight
BatchedReads(calls) == {i \in 1..Len(calls) : Len(calls[i]) > 1}

\* C12: the step of a quote call that reads the snapshot issues one batched
\* read of the pool, target-orders, pc-vault, coin-vault, open-orders, market
\* and event-queue addresses in this order, and it is the call's only batched
\* read; every slot holds the ledger's account at the address asked for at
\* that position, all as of the ledger state of that step; and the reserves
\* and fee a returned exact-in quote is computed from are those of that state
\* at the pc-vault, coin-vault, open-orders and pool addresses.
C12_OnePointInTimeSnapshot ==
    [][(pc = "snapshot" /\ pc' = "done" /\ rsps' # <<>>) =>
        LET ak == amm_keys[1]
            mk == market_keys[1]
            addrs == <<pool_id[1], ak.amm_target, ak.amm_pc_vault, ak.amm_coin_vault,
                       ak.amm_open_order, ak.market, mk.event_queue>>
        IN  /\ rpcCalls' = Append(rpcCalls, addrs)
            /\ BatchedReads(rpcCalls') = {Len(rpcCalls')}
            /\ Len(rsps') = 7
            /\ \A i \in 1..7 : rsps'[i] = ledger[addrs[i]]
            /\ (res'.kind = "ok" /\ swap_input.mode = "ExactIn") =>
                LET amm == ledger[pool_id[1]][1]
                    pending == ledger[ak.amm_open_order][1]
                    pc_reserve == ledger[ak.amm_pc_vault][1].amount
                                    + (IF amm.orderbook THEN pending.native_pc_total ELSE 0)
                    coin_reserve == ledger[ak.amm_coin_vault][1].amount
                                    + (IF amm.orderbook THEN pending.native_coin_total ELSE 0)
                    coin_in == swap_input.input_token_mint = ak.amm_coin_mint
                    in_reserve == IF coin_in THEN coin_reserve ELSE pc_reserve
                    out_reserve == IF coin_in THEN pc_reserve ELSE coin_reserve
                    after_fee == MulDiv(swap_input.amount,
                                        amm.swap_fee_denominator - amm.swap_fee_numerator,
                                        amm.swap_fee_denominator)
                IN  /\ after_fee <= swap_input.amount
                    /\ in_reserve + after_fee > 0
                    /\ res'.quote[1].other_amount
                         = out_reserve - MulDiv(in_reserve, out_reserve, in_reserve + after_fee)
    ]_vars

\* C12 witness: a quote was returned on the on-chain key path after three
\* ledger reads (pool, market, the batch), it moves a positive amount, and
\* the ledger has since moved away from the snapshot it was computed from.
C12_Witness ==
    /\ ReturnedQuote
    /\ ~load_keys_by_api
    /\ Len(rpcCalls) = 3
    /\ BatchedReads(rpcCalls) = {3}
    /\ Len(rsps) = 7
    /\ rsps[3] # ledger[TheQuote.amm_keys.amm_pc_vault]
    /\ rsps[1] # ledger[TheQuote.market]
    /\ TheQuote.other_amount > 0

\* the layout each slot of the snapshot is decoded with (executor.rs:193-209)
SlotLayout == <<"amm", "target", "pc_vault", "coin_vault">>

\* every account of the snapshot that is present and decoded has its
\* layout's length, so that absence is the only thing wrong with the snapshot
PresentSlotsWellFormed ==
    \A i \in 1..4 : IsSome(rsps[i]) => Unwrap(rsps[i]).len = LayoutSize(SlotLayout[i])

\* an account quote needs is absent from the snapshot: the pool account, the
\* target orders, a vault, or, for a pool whose status allows the order book,
\* the open orders, the market or the event queue
RequiredAccountAbsent ==
    \/ \E i \in 1..4 : rsps[i] = None
    \/ /\ IsSome(rsps[1])
       /\ Unwrap(rsps[1]).orderbook
       /\ \E i \in 5..7 : rsps[i] = None

\* C13: when an account required for the quote is absent from the snapshot
\* (the pool account, the target orders, either vault, or, with the order
\* book flag set, the open orders, the market or the event queue), quote
\* returns a NotFound error value: it neither panics nor returns a quote.
C13_AbsentAccountIsNotFound ==
    (SnapshotRead /\ PresentSlotsWellFormed /\ RequiredAccountAbsent)
        => res = Err("NotFound")

\* the pool-lookup queries of the call in flight
PoolLookups == {i \in 1..Len(apiCalls) : apiCalls[i].op = "fetch_pool_by_mints"}

\* the mints asked for and the mints of the pool the quote was computed on
RequestedPair(q) == {q.input_mint, q.output_mint}
PoolPair(q) == {q.amm_keys.amm_coin_mint, q.amm_keys.amm_pc_mint}

\* C14: a call that names its pool uses that pool without asking the
\* pool-lookup service, and returns a quote only when the pool's coin and pc
\* mints are the requested pair, in either order.
C14_ExplicitPoolPairValidated ==
    (pc # "idle" /\ IsSome(swap_input.market)) =>
        /\ PoolLookups = {}
        /\ pool_id \in {None, swap_input.market}
        /\ ReturnedQuote =>
               /\ TheQuote.market = Unwrap(swap_input.market)
               /\ RequestedPair(TheQuote) = PoolPair(TheQuote)


---------------------------------------------------------------------------
(* Instruction assembly: RaydiumAmm::make_swap and its two entry points.   *)

NativeMint == <<"So11111111111111111111111111111111111111112", "mint">>
Payer == <<"payer", "wallet">>

\* spl_associated_token_account::get_associated_token_address
get_associated_token_address(owner, mint) == <<owner, mint, "ata">>

\* faulty variant: wrapping is off unless it is asked for
ResolveWrapDefaultOff(overrides, base) ==
    LET o == IF IsSome(overrides) THEN Unwrap(overrides).wrap_and_unwrap_sol ELSE None
        r == OrElse(o, base.wrap_and_unwrap_sol)
    IN  IF IsSome(r) THEN Unwrap(r) ELSE FALSE

\* executor.rs:363-365: overrides.and_then(|o| o.priority_fee).or(self.config.priority_fee)
ResolvePriorityFee(overrides, base) ==
    OrElse(IF IsSome(overrides) THEN Unwrap(overrides).priority_fee ELSE None,
           base.priority_fee)

\* executor.rs:367-369
ResolveCuLimits(overrides, base) ==
    OrElse(IF IsSome(overrides) THEN Unwrap(overrides).cu_limits ELSE None,
           base.cu_limits)

\* executor.rs:371-374: .unwrap_or(true)
ResolveWrap(overrides, base) ==
    LET o == IF IsSome(overrides) THEN Unwrap(overrides).wrap_and_unwrap_sol ELSE None
        r == OrElse(o, base.wrap_and_unwrap_sol)
    IN  IF IsSome(r) THEN Unwrap(r) ELSE TRUE

\* raydium_amm::instruction::swap_base_in as called at executor.rs:486; its
\* last two parameters are amount_in and minimum_amount_out
SwapBaseIn(amm_program, ak, mk, user_source, user_destination, user_owner, amount_in, minimum_amount_out) ==
    [kind |-> "swap_base_in", program |-> amm_program,
     amm_pool |-> ak.amm_pool, amm_authority |-> ak.amm_authority,
     amm_open_order |-> ak.amm_open_order,
     amm_coin_vault |-> ak.amm_coin_vault, amm_pc_vault |-> ak.amm_pc_vault,
     market_program |-> ak.market_program, market |-> ak.market,
     bids |-> mk.bids, asks |-> mk.asks, event_queue |-> mk.event_queue,
     market_coin_vault |-> mk.coin_vault, market_pc_vault |-> mk.pc_vault,
     vault_signer_key |-> mk.vault_signer_key,
     user_source |-> user_source, user_destination |-> user_destination,
     user_owner |-> user_owner,
     amount_in |-> amount_in, minimum_amount_out |-> minimum_amount_out]

\* raydium_amm::instruction::swap_base_out as called at executor.rs:528; its
\* last two parameters are max_amount_in and amount_out
SwapBaseOut(amm_program, ak, mk, user_source, user_destination, user_owner, max_amount_in, amount_out) ==
    [kind |-> "swap_base_out", program |-> amm_program,
     amm_pool |-> ak.amm_pool, amm_authority |-> ak.amm_authority,
     amm_open_order |-> ak.amm_open_order,
     amm_coin_vault |-> ak.amm_coin_vault, amm_pc_vault |-> ak.amm_pc_vault,
     market_program |-> ak.market_program, market |-> ak.market,
     bids |-> mk.bids, asks |-> mk.asks, event_queue |-> mk.event_queue,
     market_coin_vault |-> mk.coin_vault, market_pc_vault |-> mk.pc_vault,
     vault_signer_key |-> mk.vault_signer_key,
     user_source |-> user_source, user_destination |-> user_destination,
     user_owner |-> user_owner,
     max_amount_in |-> max_amount_in, amount_out |-> amount_out]

\* faulty variant: the exact-out variant gets its two amounts in the exact-in order
swap_instruction_same_order(amm_program, ak, mk, user_owner, user_source, user_destination, amount_specified, other_amount_threshold, swap_base_in, constructed) ==
    IF ~constructed THEN Failed("ProgramError")
    ELSE IF swap_base_in
    THEN Good(SwapBaseIn(amm_program, ak, mk, user_source, user_destination, user_owner,
                         amount_specified, other_amount_threshold))
    ELSE Good(SwapBaseOut(amm_program, ak, mk, user_source, user_destination, user_owner,
                          amount_specified, other_amount_threshold))

\* executor.rs:464-572; `constructed` is whether the raydium_amm constructor
\* answered Ok, its error leaving through the `?` at 525 / 567
swap_instruction(amm_program, ak, mk, user_owner, user_source, user_destination, amount_specified, other_amount_threshold, swap_base_in, constructed) ==
    IF ~constructed THEN Failed("ProgramError")
    ELSE IF swap_base_in
    THEN Good(SwapBaseIn(amm_program, ak, mk, user_source, user_destination, user_owner,
                         amount_specified, other_amount_threshold))
    ELSE Good(SwapBaseOut(amm_program, ak, mk, user_source, user_destination, user_owner,
                          other_amount_threshold, amount_specified))

\* SwapInstructionsBuilder::default()
EmptyBuilder ==
    [setup_instructions |-> <<>>, swap_instruction |-> None,
     compute_unit_limit_instruction |-> None, priority_fee_instruction |-> None]

\* SwapInstructionsBuilder::handle_token_wrapping_and_accounts_creation: the
\* payer's associated token accounts for both mints, and the funding or
\* unwrapping of the native token when wrapping is enabled; `created` is
\* whether it answered Ok
handle_token_wrapping_and_accounts_creation(builder, payer, wrap_and_unwrap_sol, amount, input_mint, output_mint, created) ==
    IF ~created THEN Failed("BuilderError")
    ELSE Good([builder EXCEPT !.setup_instructions =
        <<[kind |-> "create_ata", owner |-> payer, mint |-> input_mint],
          [kind |-> "create_ata", owner |-> payer, mint |-> output_mint]>>
        \o (IF wrap_and_unwrap_sol /\ input_mint = NativeMint
            THEN <<[kind |-> "wrap_fund", owner |-> payer, amount |-> amount]>>
            ELSE <<>>)
        \o (IF wrap_and_unwrap_sol /\ output_mint = NativeMint
            THEN <<[kind |-> "unwrap", owner |-> payer]>>
            ELSE <<>>)])

\* SwapInstructionsBuilder::handle_compute_units_params: the configured limit,
\* else the estimate of a simulation, if there is one; `estimate` is what its
\* round trip to the ledger node answered, an error leaving as its error
ResolveComputeUnits(cu_limits, estimate) == OrElse(cu_limits, estimate)
handle_compute_units_params(builder, cu_limits, estimate) ==
    IF ~estimate.ok THEN Failed(estimate.err)
    ELSE LET compute_units == ResolveComputeUnits(cu_limits, estimate.val)
         IN  Good([compute_units |-> compute_units,
                   builder |-> [builder EXCEPT !.compute_unit_limit_instruction =
                       IF IsSome(compute_units)
                       THEN Some([kind |-> "set_compute_unit_limit",
                                  units |-> Unwrap(compute_units)])
                       ELSE None]])

\* SwapInstructionsBuilder::handle_priority_fee_params; `accepted` is whether
\* it answered Ok
handle_priority_fee_params(builder, priority_fee, compute_units, accepted) ==
    IF ~accepted THEN Failed("BuilderError")
    ELSE Good([builder EXCEPT !.priority_fee_instruction =
        IF IsSome(priority_fee)
        THEN Some([kind |-> "set_compute_unit_price", fee |-> Unwrap(priority_fee),
                   units |-> compute_units])
        ELSE None])

\* SwapInstructionsBuilder::build_instructions: setup, the swap, the
\* compute-unit limit, the priority fee; `laid_out` is whether it answered Ok
build_instructions(builder, laid_out) ==
    IF ~laid_out THEN Failed("BuilderError")
    ELSE Good(builder.setup_instructions
              \o builder.swap_instruction
              \o builder.compute_unit_limit_instruction
              \o builder.priority_fee_instruction)

\* SwapInstructionsBuilder::build_transaction(Some(&payer), None): unsigned
build_transaction(builder, payer, laid_out) ==
    LET instructions == build_instructions(builder, laid_out)
    IN  IF ~instructions.ok THEN Failed(instructions.err)
        ELSE Good([payer |-> payer, instructions |-> instructions.val, signatures |-> <<>>])

\* executor.rs:379-392: the amount the wrapping is sized to
AmountMoved(output) ==
    IF output.amount_specified_is_input THEN output.amount ELSE output.other_amount

\* faulty variant: the setup step is handed the quote's two mints in each
\* other's place
make_swap_begin_mints_swapped(cfg, input_pubkey, output, overrides, created, constructed) ==
    LET priority_fee == ResolvePriorityFee(overrides, cfg)
        cu_limits == ResolveCuLimits(overrides, cfg)
        wrap_and_unwrap_sol == ResolveWrap(overrides, cfg)
        b1 == handle_token_wrapping_and_accounts_creation(
                  EmptyBuilder, input_pubkey, wrap_and_unwrap_sol, AmountMoved(output),
                  output.output_mint, output.input_mint, created)
        instruction == swap_instruction(
                  RAYDIUM_LIQUIDITY_POOL_V4_PROGRAM_ID, output.amm_keys, output.market_keys,
                  input_pubkey,
                  get_associated_token_address(input_pubkey, output.input_mint),
                  get_associated_token_address(input_pubkey, output.output_mint),
                  output.amount, output.other_amount_threshold,
                  output.amount_specified_is_input, constructed)
    IN  IF ~b1.ok THEN Failed(b1.err)
        ELSE IF ~instruction.ok THEN Failed(instruction.err)
        ELSE Good([input_pubkey |-> input_pubkey, output |-> output,
                   overrides |-> overrides, base |-> cfg,
                   priority_fee |-> priority_fee, cu_limits |-> cu_limits,
                   wrap_and_unwrap_sol |-> wrap_and_unwrap_sol,
                   builder |-> [b1.val EXCEPT !.swap_instruction = Some(instruction.val)]])

\* executor.rs:356-413: make_swap up to its await. The configuration is
\* resolved from self.config, the setup instructions are created and the swap
\* instruction is set; an error of either step returns through its `?` (392,
\* 410). Otherwise these are the locals the suspended call holds.
make_swap_begin(cfg, input_pubkey, output, overrides, created, constructed) ==
    LET priority_fee == ResolvePriorityFee(overrides, cfg)
        cu_limits == ResolveCuLimits(overrides, cfg)
        wrap_and_unwrap_sol == ResolveWrap(overrides, cfg)
        b1 == handle_token_wrapping_and_accounts_creation(
                  EmptyBuilder, input_pubkey, wrap_and_unwrap_sol, AmountMoved(output),
                  output.input_mint, output.output_mint, created)
        instruction == swap_instruction(
                  RAYDIUM_LIQUIDITY_POOL_V4_PROGRAM_ID, output.amm_keys, output.market_keys,
                  input_pubkey,
                  get_associated_token_address(input_pubkey, output.input_mint),
                  get_associated_token_address(input_pubkey, output.output_mint),
                  output.amount, output.other_amount_threshold,
                  output.amount_specified_is_input, constructed)
    IN  IF ~b1.ok THEN Failed(b1.err)
        ELSE IF ~instruction.ok THEN Failed(instruction.err)
        ELSE Good([input_pubkey |-> input_pubkey, output |-> output,
                   overrides |-> overrides, base |-> cfg,
                   priority_fee |-> priority_fee, cu_limits |-> cu_limits,
                   wrap_and_unwrap_sol |-> wrap_and_unwrap_sol,
                   builder |-> [b1.val EXCEPT !.swap_instruction = Some(instruction.val)]])

\* executor.rs:415-422: make_swap from the answer of its await to its return;
\* an error of handle_compute_units_params returns through the `?` at 417,
\* whatever the configured limit, and one of handle_priority_fee_params
\* through the `?` at 419
make_swap_finish(locals, estimate, accepted) ==
    LET units == handle_compute_units_params(locals.builder, locals.cu_limits, estimate)
    IN  IF ~units.ok THEN Failed(units.err)
        ELSE LET b4 == handle_priority_fee_params(units.val.builder, locals.priority_fee,
                                                  units.val.compute_units, accepted)
             IN  IF ~b4.ok THEN Failed(b4.err)
                 ELSE Good([builder |-> b4.val,
                            effective |-> [priority_fee |-> locals.priority_fee,
                                           cu_limits |-> locals.cu_limits,
                                           wrap_and_unwrap_sol |-> locals.wrap_and_unwrap_sol]])

\* executor.rs:356-423, from call to return
make_swap(cfg, input_pubkey, output, overrides, created, constructed, estimate, accepted) ==
    LET begun == make_swap_begin(cfg, input_pubkey, output, overrides, created, constructed)
    IN  IF ~begun.ok THEN Failed(begun.err)
        ELSE make_swap_finish(begun.val, estimate, accepted)

\* the values of the model's configurations: the executor's own settings and
\* the overrides of a call draw their fees and limits from different values,
\* so that the origin of an effective value can be told
PriorityFees == {None, Some("fee_a")}
CuLimits == {None, Some("cu_a")}
OverridePriorityFees == {None, Some("fee_b")}
OverrideCuLimits == {None, Some("cu_b")}
WrapFlags == {None, Some(TRUE), Some(FALSE)}
SwapConfigs ==
    [priority_fee : PriorityFees, cu_limits : CuLimits, wrap_and_unwrap_sol : WrapFlags,
     as_legacy_transaction : {Some(TRUE)}]
SwapConfigOverrides ==
    [priority_fee : OverridePriorityFees, cu_limits : OverrideCuLimits,
     wrap_and_unwrap_sol : WrapFlags]
Estimates == {Failed("UpstreamError"), Good(None), Good(Some("cu_estimate"))}

\* the quotes handed to assembly: pool P1's keys, amount 5 against 3, and a
\* threshold on the protective side of 3
P1Bundle == KeyBundle(P1, TRUE, TRUE, TRUE)
QuoteOf(input_mint, output_mint, is_input) ==
    [market |-> P1, input_mint |-> input_mint, output_mint |-> output_mint,
     amount |-> 5, other_amount |-> 3,
     other_amount_threshold |-> IF is_input THEN 2 ELSE 4,
     amount_specified_is_input |-> is_input,
     input_mint_decimals |-> 9, output_mint_decimals |-> 6,
     amm_keys |-> AmmKeysTryFrom(P1Bundle).val,
     market_keys |-> MarketKeysTryFrom(P1Bundle).val]
SwapQuotes ==
    {QuoteOf(NativeMint, PcMint, TRUE), QuoteOf(PcMint, NativeMint, TRUE),
     QuoteOf(NativeMint, PcMint, FALSE), QuoteOf(CoinMint, PcMint, FALSE)}

\* what swap_instructions / swap_transaction returned when make_swap
\* answered Ok (executor.rs:329, 346): the Result of the builder's
\* build_instructions / build_transaction, its error included
BuiltOf(entry, locals, made, laid_out) ==
    LET out == IF entry = "swap_instructions"
               THEN build_instructions(made.builder, laid_out)
               ELSE build_transaction(made.builder, Some(locals.input_pubkey), laid_out)
    IN  IF ~out.ok THEN [kind |-> "err", entry |-> entry, err |-> out.err]
        ELSE [kind |-> "ok", entry |-> entry, payer |-> locals.input_pubkey,
              quote |-> locals.output, overrides |-> locals.overrides,
              base |-> locals.base,
              effective |-> made.effective,
              builder |-> made.builder,
              instructions |-> IF entry = "swap_instructions"
                               THEN out.val ELSE out.val.instructions]

\* what they returned when make_swap's error left through the `?` at 327 / 344
BuiltErr(entry, err) == [kind |-> "err", entry |-> entry, err |-> err]

\* executor.rs:317-330: a call by one of the callers, up to the await of
\* make_swap at 415-417 or to the error that returns before it; the other
\* suspended calls stay as they are
SwapInstructions(input_pubkey, output, overrides, created, constructed) ==
    /\ built.kind = "none"
    /\ BagCardinality(in_flight) < Cardinality(Callers)
    /\ LET begun == make_swap_begin(config, input_pubkey, output, overrides,
                                    created, constructed)
       IN  IF begun.ok
           THEN /\ in_flight' = in_flight (+) SetToBag({[entry |-> "swap_instructions",
                                                           locals |-> begun.val]})
                /\ UNCHANGED built
           ELSE /\ built' = BuiltErr("swap_instructions", begun.err)
                /\ UNCHANGED in_flight
    /\ UNCHANGED <<config, load_keys_by_api, ledger, pc, swap_input, pool_id, amm_keys,
                   market_keys, direction, apiCalls, rpcCalls, rsps, res>>

\* executor.rs:333-347: likewise
SwapTransaction(input_pubkey, output, overrides, created, constructed) ==
    /\ built.kind = "none"
    /\ BagCardinality(in_flight) < Cardinality(Callers)
    /\ LET begun == make_swap_begin(config, input_pubkey, output, overrides,
                                    created, constructed)
       IN  IF begun.ok
           THEN /\ in_flight' = in_flight (+) SetToBag({[entry |-> "swap_transaction",
                                                           locals |-> begun.val]})
                /\ UNCHANGED built
           ELSE /\ built' = BuiltErr("swap_transaction", begun.err)
                /\ UNCHANGED in_flight
    /\ UNCHANGED <<config, load_keys_by_api, ledger, pc, swap_input, pool_id, amm_keys,
                   market_keys, direction, apiCalls, rpcCalls, rsps, res>>

\* executor.rs:415-422 and 329 / 346: handle_compute_units_params answers, and
\* make_swap and then the builder's final step answer Ok or Err;
\* one of the suspended calls runs to its return
SwapResume(estimate, accepted, laid_out) ==
    /\ \E call \in BagToSet(in_flight) :
        /\ LET made == make_swap_finish(call.locals, estimate, accepted)
           IN  built' = IF made.ok
                        THEN BuiltOf(call.entry, call.locals, made.val, laid_out)
                        ELSE BuiltErr(call.entry, made.err)
        /\ in_flight' = in_flight (-) SetToBag({call})
    /\ UNCHANGED <<config, load_keys_by_api, ledger, pc, swap_input, pool_id, amm_keys,
                   market_keys, direction, apiCalls, rpcCalls, rsps, res>>

\* the caller takes the instructions
SwapDone ==
    /\ built.kind # "none"
    /\ built' = NoBuilt
    /\ UNCHANGED <<config, load_keys_by_api, ledger, pc, swap_input, pool_id, amm_keys,
                   market_keys, direction, apiCalls, rpcCalls, rsps, res, in_flight>>

\* executor.rs:350-353; `&mut self` excludes every call in flight, which
\* borrows `&self`
UpdateConfig(cfg) ==
    /\ built.kind = "none"
    /\ in_flight = NoneInFlight
    /\ config' = cfg
    /\ UNCHANGED <<load_keys_by_api, ledger, pc, swap_input, pool_id, amm_keys,
                   market_keys, direction, apiCalls, rpcCalls, rsps, res, built, in_flight>>

\* an executor built with any options, over the healthy ledger
InitSwap ==
    /\ \E pf \in PriorityFees, cu \in CuLimits, w \in WrapFlags :
            Constructed(Opts(pf, cu, w, None))
    /\ ledger = LedgerOf(PoolAccounts(P1, MaxReserve, MaxReserve, <<25, 10000>>, FALSE))

NextSwap ==
    \/ \E q \in SwapQuotes, o \in {None} \cup {Some(v) : v \in SwapConfigOverrides},
          created \in BOOLEAN, constructed \in BOOLEAN :
            SwapInstructions(Payer, q, o, created, constructed)
    \/ \E q \in SwapQuotes, o \in {None} \cup {Some(v) : v \in SwapConfigOverrides},
          created \in BOOLEAN, constructed \in BOOLEAN :
            SwapTransaction(Payer, q, o, created, constructed)
    \/ \E e \in Estimates, accepted \in BOOLEAN, laid_out \in BOOLEAN :
            SwapResume(e, accepted, laid_out)
    \/ SwapDone
    \/ \E cfg \in SwapConfigs : UpdateConfig(cfg)

SpecSwap == InitSwap /\ [][NextSwap]_vars


---------------------------------------------------------------------------
(* Properties of instruction assembly.                                     *)

Assembled == built.kind = "ok"
SwapKinds == {"swap_base_in", "swap_base_out"}
SetupKinds == {"create_ata", "wrap_fund", "unwrap"}
Positions(instructions, kinds) ==
    {i \in 1..Len(instructions) : instructions[i].kind \in kinds}

C7_OneSwapInstruction ==
    Assembled =>
        LET q == built.quote
            ins == built.builder.swap_instruction
        IN  /\ Len(ins) = 1
            /\ \A k \in 1..Len(ins) :
                /\ ins[k].kind \in SwapKinds
                /\ (ins[k].kind = "swap_base_in") <=> q.amount_specified_is_input
                /\ ins[k].program = RAYDIUM_LIQUIDITY_POOL_V4_PROGRAM_ID
                /\ ins[k].user_owner = built.payer
                /\ ins[k].user_source = <<built.payer, q.input_mint, "ata">>
                /\ ins[k].user_destination = <<built.payer, q.output_mint, "ata">>
                /\ ins[k].amm_pool = q.amm_keys.amm_pool
                /\ ins[k].market = q.amm_keys.market
                /\ ins[k].event_queue = q.market_keys.event_queue
                /\ IF q.amount_specified_is_input
                   THEN /\ ins[k].amount_in = q.amount
                        /\ ins[k].minimum_amount_out = q.other_amount_threshold
                   ELSE /\ ins[k].amount_out = q.amount
                        /\ ins[k].max_amount_in = q.other_amount_threshold

\* C7 witness: an exact-out quote has been assembled into a swap_base_out.
C7_Witness ==
    /\ Assembled
    /\ ~built.quote.amount_specified_is_input
    /\ Len(built.builder.swap_instruction) = 1
    /\ built.builder.swap_instruction[1].kind = "swap_base_out"
    /\ built.builder.swap_instruction[1].max_amount_in = 4
    /\ built.builder.swap_instruction[1].amount_out = 5

\* C8: each field of the effective configuration is the override's value when
\* an override is given and sets that field, else the base configuration's
\* value when set, else the default, which for wrapping is enabled; no other
\* field takes part, and no override is the same as an override setting nothing.
C8_PerFieldPrecedence ==
    Assembled =>
        LET o == built.overrides
            b == built.base
            e == built.effective
        IN  /\ e.priority_fee =
                  IF o # <<>> /\ o[1].priority_fee # <<>> THEN o[1].priority_fee
                  ELSE b.priority_fee
            /\ e.cu_limits =
                  IF o # <<>> /\ o[1].cu_limits # <<>> THEN o[1].cu_limits
                  ELSE b.cu_limits
            /\ e.wrap_and_unwrap_sol =
                  IF o # <<>> /\ o[1].wrap_and_unwrap_sol # <<>>
                  THEN o[1].wrap_and_unwrap_sol[1]
                  ELSE IF b.wrap_and_unwrap_sol # <<>> THEN b.wrap_and_unwrap_sol[1]
                  ELSE TRUE

\* C8 witness: an override that sets only the priority fee, over a base that
\* sets another fee and a limit and leaves wrapping unset; the fee is the
\* override's, the limit the base's, and wrapping is on by default.
C8_Witness ==
    /\ Assembled
    /\ built.overrides # <<>>
    /\ built.overrides[1].priority_fee = <<"fee_b">>
    /\ built.overrides[1].cu_limits = <<>>
    /\ built.overrides[1].wrap_and_unwrap_sol = <<>>
    /\ built.base.priority_fee = <<"fee_a">>
    /\ built.base.cu_limits = <<"cu_a">>
    /\ built.base.wrap_and_unwrap_sol = <<>>
    /\ built.effective.priority_fee = <<"fee_b">>
    /\ built.effective.cu_limits = <<"cu_a">>
    /\ built.effective.wrap_and_unwrap_sol

============================================================================
